---- MODULE Spec2Model ----
(***************************************************************************)
(* git-reparent (cfe84/git-tools): the resumable reparent state machine.   *)
(*                                                                         *)
(* The repository (HEAD, branch pointers, the cherry-pick session, the     *)
(* work tree status) and the two files git-reparent keeps in the git       *)
(* directory (git-reparent-state, REPARENT_HEAD) are the durable state.    *)
(* One invocation of the command is a process that runs the handler step   *)
(* by step: every call that changes the repository or a file is one step.  *)
(* A step either takes effect or fails without effect, and the process may *)
(* be killed between two steps.  The operator acts only while no process   *)
(* is running: resolving a conflict, and continuing or cancelling the      *)
(* native cherry-pick session.                                             *)
(*                                                                         *)
(* A commit is [root, picks]: the root it descends from and the changes    *)
(* applied on top of it, oldest first.  The record stands for the commit   *)
(* id; cherry-picking commit c on HEAD appends c's own change to HEAD.     *)
(***************************************************************************)
EXTENDS Integers, Sequences, FiniteSets, TLC

\* ------------------------------------------------------------------ bounds
\* Commits on the branch feat above its root.
NumOrig == 2
\* Start invocations that get as far as checking out the new parent.
MaxStarts == 1
\* Steps that fail though they could succeed, and kills of the process.
MaxFaults == 1
\* Longest history (changes above a root) a replay may produce.
MaxPicks == NumOrig

\* ------------------------------------------------------------- commits, refs
NoCommit == [root |-> "", picks |-> <<>>]

Range(s) == {s[j] : j \in 1..Len(s)}

\* The ancestor of c with k changes above the root.
Prefix(c, k) == [root |-> c.root, picks |-> SubSeq(c.picks, 1, k)]

Ancestors(c) == {Prefix(c, k) : k \in 0..Len(c.picks)}

\* The change a commit introduces (0 for a root commit).
Change(c) == IF c.picks = <<>> THEN 0 ELSE c.picks[Len(c.picks)]

\* git cherry-pick <c>, committed: the new commit on top of `onto`.
Replayed(onto, c) == [root |-> onto.root, picks |-> Append(onto.picks, Change(c))]

BranchNames == {"main", "feat", "base"}

\* git-bookmark: the bookmark names used, and no bookmark stored.
BookmarkNames == {"a", "b"}

NoBookmarks == [n \in BookmarkNames |-> ""]

\* git-backup: the highest number of a backup branch.
MaxBackups == 2

\* A backup branch backups/<source>/<date> (numbered FALSE) or
\* backups/<source>/<date>-<number>, of today's date.
BackupBranch(source, numbered, number) ==
    [source |-> source, numbered |-> numbered, number |-> number]

NoBackup == BackupBranch("", FALSE, 0)

VARIABLES
    head,            \* [branch, commit]: on a branch (commit unused) or detached
    branches,        \* branch name -> commit
    cherryPickHead,  \* CHERRY_PICK_HEAD: NoCommit when absent
    tree,            \* "clean" | "conflict" (unmerged paths) | "staged" (resolved, uncommitted)
    stateFile,       \* <gitdir>/git-reparent-state: [exists, lines]
    reparentHead,    \* <gitdir>/REPARENT_HEAD: [exists, commit]
    pc,              \* position of the process: "idle" when none runs, "done" when it has exited
    cmd,             \* the command invoked: "start" | "continue" | "abort" | "none"
    loc,             \* the process's local variables
    outcome,         \* how the invocation ended
    exitCode,        \* its exit code
    suppliedBoth,    \* history: the start's command line held --number and --from
    backedUp,        \* history: the invocation ran git-backup and it created a backup
    given,           \* history: what the start was given, see NoGiven
    attempted,       \* history: commits handed to cherry-pick by the invocation
    resume,          \* history: `suspended` as this continue found it
    op,              \* history: the operation begun by the last start that checked out the parent,
                     \* with the faults injected before it
    tip,             \* history: the last commit a replay of that operation created
    suspended,       \* history: what the last suspension on a conflict left to replay
    starts,          \* history: start invocations that checked out the new parent
    faults,          \* history: faults injected so far
    bookmarks,       \* git-bookmark: bookmark name -> the reference it stores, "" for none
    previousBookmark,\* git-bookmark: the content of PREVIOUS_BOOKMARK, "" when missing
    checkedOut,      \* history: the bookmarks checked out, oldest first
    backupBranches,  \* git-backup: the backup branches that exist
    created,         \* history: the branch the last git-backup created
    reader,          \* history: what a load concurrent with a save observed
    split,           \* git-split: [diffFile, staged, unstaged], see NoSplit
    initial          \* history: [parentCommit, commits, continues] of the operation

repo == <<head, branches, cherryPickHead, tree>>
files == <<stateFile, reparentHead>>
proc == <<pc, cmd, loc, outcome, exitCode>>
call == <<suppliedBoth, backedUp, given, attempted, resume>>
hist == <<op, tip, suspended, starts>>
others == <<bookmarks, previousBookmark, checkedOut, backupBranches, created, reader, split>>
tools == <<others, initial>>
vars == <<repo, files, proc, call, hist, faults, tools>>

HeadCommit == IF head.branch # "" THEN branches[head.branch] ELSE head.commit

\* ------------------------------------------------------- common (git wrappers)
\* git rev-parse <ref> in a repository with HEAD h and branches br: a branch
\* name, the full name of a branch, HEAD or HEAD~1.  HEAD~1 names nothing
\* when HEAD is a root commit.
CommitAt(h, br) == IF h.branch # "" THEN br[h.branch] ELSE h.commit

FullNames == {"refs/heads/base"}

RefExists(h, br, ref) ==
    \/ ref \in BranchNames \cup FullNames \cup {"HEAD"}
    \/ ref = "HEAD~1" /\ CommitAt(h, br).picks # <<>>

RevParse(h, br, ref) ==
    IF ref = "HEAD" THEN CommitAt(h, br)
    ELSE IF ref = "HEAD~1"
         THEN Prefix(CommitAt(h, br), Len(CommitAt(h, br).picks) - 1)
         ELSE IF ref = "refs/heads/base" THEN br["base"]
         ELSE br[ref]

GitRefExists(ref) == RefExists(head, branches, ref)

GetCommitHash(ref) == RevParse(head, branches, ref)

\* "" stands for the error "not on a branch (detached HEAD)".
GetCurrentBranch == head.branch

HasUncommittedChanges == tree # "clean"

\* A check that takes every failure for a conflict.
HasConflictsAlways == TRUE

\* git status --porcelain shows an unmerged path.
HasConflicts == tree = "conflict"

IsCherryPickInProgress == cherryPickHead # NoCommit

\* git rev-list <from>..<to> without --reverse: newest first.
RevListNewestFirst(from, to) ==
    LET keep == {k \in 0..Len(to.picks) : Prefix(to, k) \notin Ancestors(from)}
    IN [j \in 1..Cardinality(keep) |-> Prefix(to, Len(to.picks) + 1 - j)]

\* git rev-list --reverse <from>..<to>: the ancestors of `to` that are not
\* ancestors of `from`, oldest first.
RevList(from, to) ==
    LET keep == {k \in 0..Len(to.picks) : Prefix(to, k) \notin Ancestors(from)}
        lo == Len(to.picks) + 1 - Cardinality(keep)
    IN [j \in 1..Cardinality(keep) |-> Prefix(to, lo + j - 1)]

\* GetCommitRange on "<from>..HEAD" / "HEAD~<n>..HEAD": [err, commits].
\* HEAD~n does not exist when HEAD has fewer than n ancestors.
GetCommitRange(fromRef, n) ==
    IF fromRef # ""
    THEN [err |-> FALSE, commits |-> RevList(branches[fromRef], HeadCommit)]
    ELSE IF n > Len(HeadCommit.picks)
         THEN [err |-> TRUE, commits |-> <<>>]
         ELSE [err |-> FALSE,
               commits |-> RevList(Prefix(HeadCommit, Len(HeadCommit.picks) - n), HeadCommit)]

\* git checkout <commit> / git checkout <branch>: the new HEAD.
CheckoutCommit(c) == [branch |-> "", commit |-> c]

CheckoutBranch(b) == [branch |-> b, commit |-> NoCommit]

\* git branch -f <b> <newRef>
MoveBranch(b, newRef) == [branches EXCEPT ![b] = newRef]

\* ---------------------------------------------------------------- parseArgs
Args ==
    [parent : {"", "main", "nosuch"},
     numberGiven : BOOLEAN,
     number : 0..NumOrig,
     from : {"", "base", "feat", "nosuch"},
     backup : BOOLEAN,
     confirm : BOOLEAN,
     noBranch : BOOLEAN]

parseArgs(args) ==
    LET numberOfCommits == IF args.numberGiven THEN args.number ELSE 1
        opts == [parentRef |-> args.parent,
                 numberOfCommits |-> numberOfCommits,
                 fromRef |-> args.from,
                 shouldBackup |-> args.backup,
                 shouldConfirm |-> args.confirm,
                 noBranch |-> args.noBranch]
    IN IF args.numberGiven /\ args.number < 1
       THEN [err |-> TRUE, opts |-> opts]
       ELSE IF opts.parentRef = ""
            THEN [err |-> TRUE, opts |-> opts]
            ELSE IF opts.fromRef # "" /\ opts.numberOfCommits # 1
                 THEN [err |-> TRUE, opts |-> opts]
                 ELSE [err |-> FALSE, opts |-> opts]

\* ------------------------------------------------------------ the state store
Line(k, v, c) == [k |-> k, v |-> v, c |-> c]

EmptyLine == Line("", "", NoCommit)

FormatBool(b) == IF b THEN "true" ELSE "false"

\* A record that leaves the ORIGINAL_BRANCH line out.
FormatStateWithoutBranch(commits, originalBranch, noBranch) ==
    <<Line("NO_BRANCH", FormatBool(noBranch), NoCommit),
      Line("COMMITS", "", NoCommit)>>
    \o [j \in 1..Len(commits) |-> Line("", "", commits[j])]
    \o <<EmptyLine>>

\* saveReparentState's content, as the lines strings.Split(content, "\n") yields:
\* the text ends with a line break, so the last line is empty.
FormatState(commits, originalBranch, noBranch) ==
    <<Line("ORIGINAL_BRANCH", originalBranch, NoCommit),
      Line("NO_BRANCH", FormatBool(noBranch), NoCommit),
      Line("COMMITS", "", NoCommit)>>
    \o [j \in 1..Len(commits) |-> Line("", "", commits[j])]
    \o <<EmptyLine>>

\* A loader that drops the flag.
ParseNoBranchNever(v) == FALSE

\* loadReparentState: NO_BRANCH=<value> sets the flag when the value is "true".
ParseNoBranch(v) == v = "true"

RECURSIVE ParseLines(_, _, _)
ParseLines(lines, st, inCommits) ==
    IF lines = <<>> THEN st
    ELSE LET line == Head(lines)
             rest == Tail(lines)
         IN IF line.k = "ORIGINAL_BRANCH"
            THEN ParseLines(rest, [st EXCEPT !.originalBranch = line.v], inCommits)
            ELSE IF line.k = "NO_BRANCH"
                 THEN ParseLines(rest, [st EXCEPT !.noBranch = ParseNoBranch(line.v)], inCommits)
                 ELSE IF line.k = "COMMITS" /\ line.v = ""
                      THEN ParseLines(rest, st, TRUE)
                      ELSE IF inCommits /\ line # EmptyLine
                           THEN ParseLines(rest,
                                    [st EXCEPT !.remainingCommits = Append(@, line.c)],
                                    inCommits)
                           ELSE ParseLines(rest, st, inCommits)

EmptyState == [remainingCommits |-> <<>>, originalBranch |-> "", noBranch |-> FALSE]

\* A loader without the os.Stat check.
StateFileNeverMissing(file) == FALSE

\* loadReparentState's os.Stat check: no file, no state.
StateFileMissing(file) == ~file.exists

loadReparentState ==
    IF StateFileMissing(stateFile)
    THEN [err |-> TRUE, state |-> EmptyState]
    ELSE [err |-> FALSE, state |-> ParseLines(stateFile.lines, EmptyState, FALSE)]

isReparentInProgress == reparentHead.exists

NoFile == [exists |-> FALSE, lines |-> <<>>]

NoMarker == [exists |-> FALSE, commit |-> NoCommit]

\* git-split: <gitdir>/git-split.diff does not exist, nothing is staged and
\* the working tree has no unstaged change.
NoSplit == [diffFile |-> FALSE, staged |-> FALSE, unstaged |-> FALSE]

\* No load has run beside a save.  old, new: the record before the save and
\* the record it writes; saw: what the load returned.
NoReader ==
    [loaded |-> FALSE, old |-> NoFile, new |-> NoFile,
     saw |-> [err |-> TRUE, state |-> EmptyState]]

\* ------------------------------------------------------------------ the process
NoLoc ==
    [parentCommit |-> NoCommit, origBranch |-> "", noBranch |-> FALSE,
     commits |-> <<>>, i |-> 0,
     toSave |-> <<>>, saveBranch |-> "", saveNoBranch |-> FALSE, ret |-> "",
     newHead |-> NoCommit, cleanupWarned |-> FALSE, abortWarned |-> FALSE]

\* No operation has started: no plan, no continue.
NoInitial == [parentCommit |-> NoCommit, commits |-> <<>>, continues |-> 0]

NoOp ==
    [phase |-> "none", branch |-> "", preStart |-> NoCommit, noBranch |-> FALSE,
     faults |-> 0]

NoResume == [valid |-> FALSE, at |-> NoCommit, list |-> <<>>]

\* badParent, badFrom: --parent, --from names no reference.  refused:
\* --confirm was given and the operator's answer is no.
NoGiven == [badParent |-> FALSE, badFrom |-> FALSE, refused |-> FALSE]

Given(r) ==
    [badParent |-> ~GitRefExists(r.args.parent),
     badFrom |-> r.args.from # "" /\ ~GitRefExists(r.args.from),
     refused |-> r.args.confirm /\ ~r.answer]

\* The repository before any reparent: on branch feat, NumOrig commits above
\* the old root, one of them shared with branch base; main is the new parent.
Pristine ==
    /\ head = CheckoutBranch("feat")
    /\ branches = [b \in BranchNames |->
                     IF b = "main" THEN [root |-> "main", picks |-> <<>>]
                     ELSE IF b = "base" THEN [root |-> "old", picks |-> <<1>>]
                     ELSE [root |-> "old", picks |-> [j \in 1..NumOrig |-> j]]]
    /\ cherryPickHead = NoCommit
    /\ tree = "clean"
    /\ stateFile = NoFile
    /\ reparentHead = NoMarker
    /\ pc = "idle"
    /\ cmd = "none"
    /\ loc = NoLoc
    /\ outcome = "none"
    /\ exitCode = 0
    /\ suppliedBoth = FALSE
    /\ backedUp = FALSE
    /\ given = NoGiven
    /\ attempted = <<>>
    /\ resume = NoResume
    /\ op = NoOp
    /\ tip = NoCommit
    /\ suspended = NoResume
    /\ starts = 0
    /\ bookmarks = NoBookmarks
    /\ previousBookmark = ""
    /\ checkedOut = <<>>
    /\ backupBranches = {}
    /\ created = NoBackup
    /\ reader = NoReader
    /\ split = NoSplit
    /\ initial = NoInitial

Init == Pristine /\ faults = 0

\* The process exits.
Exit(how, code) ==
    /\ pc' = "done"
    /\ outcome' = how
    /\ exitCode' = code

Running == UNCHANGED <<outcome, exitCode>>

\* A step that git or the file system can carry out fails all the same.
Fault == faults < MaxFaults /\ faults' = faults + 1

NoFault == faults' = faults

\* A step fails: because it cannot succeed here, or else by a fault.
Fails(can) == IF can THEN Fault ELSE NoFault

\* getCommitsToReparent: [err, commits]
getCommitsToReparent(opts) ==
    IF opts.fromRef # "" /\ ~GitRefExists(opts.fromRef)
    THEN [err |-> TRUE, commits |-> <<>>]
    ELSE GetCommitRange(opts.fromRef, opts.numberOfCommits)

StopWithoutError(how, code, backup) ==
    [go |-> FALSE, how |-> how, code |-> 0, backup |-> backup,
     parentCommit |-> NoCommit, currentBranch |-> "", commits |-> <<>>]

\* An early return of runReparent: how it ends, the exit code main gives it,
\* and whether git-backup had already run.
Stop(how, code, backup) ==
    [go |-> FALSE, how |-> how, code |-> code, backup |-> backup,
     parentCommit |-> NoCommit, currentBranch |-> "", commits |-> <<>>]

NeverDeclines(opts, answer) == FALSE

\* The confirmation prompt of --confirm: any answer but y or yes cancels.
Declines(opts, answer) == opts.shouldConfirm /\ ~answer

\* runReparent up to the confirmation prompt: the checks, the optional backup
\* and the plan.  backupOk is whether git-backup succeeds, answer whether the
\* operator confirms.  go: the handler goes on to check out the new parent.
runReparentPlan(opts, backupOk, answer) ==
    IF HasUncommittedChanges THEN Stop("uncommittedChanges", 1, FALSE)
    ELSE IF ~GitRefExists(opts.parentRef) THEN Stop("noParentRef", 1, FALSE)
    ELSE IF opts.shouldBackup /\ ~backupOk THEN Stop("backupFailed", 1, FALSE)
    ELSE IF GetCurrentBranch = "" THEN Stop("detachedHead", 1, opts.shouldBackup)
    ELSE LET got == getCommitsToReparent(opts)
         IN IF got.err THEN Stop("noCommitRange", 1, opts.shouldBackup)
            ELSE IF Len(got.commits) = 0 THEN Stop("noCommits", 1, opts.shouldBackup)
            ELSE IF Declines(opts, answer) THEN Stop("cancelled", 0, opts.shouldBackup)
            ELSE [go |-> TRUE, how |-> "", code |-> 0, backup |-> opts.shouldBackup,
                  parentCommit |-> GetCommitHash(opts.parentRef),
                  currentBranch |-> GetCurrentBranch,
                  commits |-> got.commits]

\* One run: a command line, whether git-backup succeeds, and the operator's
\* answer to the confirmation prompt.
Run(parent, numberGiven, number, from, noBranch, backup, backupOk, confirm, answer) ==
    [args |-> [parent |-> parent, numberGiven |-> numberGiven, number |-> number,
               from |-> from, backup |-> backup, confirm |-> confirm,
               noBranch |-> noBranch],
     backupOk |-> backupOk, answer |-> answer]

\* <<numberGiven, number, from, noBranch>> of the command lines parseArgs
\* accepts, and of those it rejects.
LinesAccepted ==
    {<<FALSE, 1, "", nb>> : nb \in BOOLEAN}
    \cup {<<TRUE, n, "", nb>> : n \in 1..NumOrig, nb \in BOOLEAN}
    \cup {<<g, 1, "base", nb>> : g \in BOOLEAN, nb \in BOOLEAN}
    \cup {<<FALSE, 1, f, FALSE>> : f \in {"feat", "nosuch"}}

LinesRejected ==
    {<<TRUE, 0, "", FALSE>>} \cup {<<TRUE, n, "base", FALSE>> : n \in 2..NumOrig}

\* The command lines tried.  What a run never acts on is fixed: the number
\* without --number, git-backup's result without --backup, the answer without
\* --confirm.  A command line that parseArgs or the reference checks reject is
\* tried in its plainest form.  --backup and --confirm, which the handler
\* treats independently of the other flags, are tried on the plain command
\* line, --backup also before a --from that does not exist, and a --confirm
\* that the operator declines also with the other flags.
Runs ==
    {Run(p, FALSE, 1, "", FALSE, FALSE, TRUE, FALSE, TRUE) : p \in {"", "nosuch"}}
    \cup {Run("main", l[1], l[2], l[3], l[4], FALSE, TRUE, FALSE, TRUE) :
            l \in LinesAccepted \cup LinesRejected}
    \cup {Run("main", FALSE, 1, "", FALSE, f[1], f[2], f[3], f[4]) :
            f \in {<<TRUE, TRUE, FALSE, TRUE>>, <<TRUE, FALSE, FALSE, TRUE>>,
                   <<TRUE, TRUE, TRUE, TRUE>>, <<TRUE, FALSE, TRUE, TRUE>>,
                   <<FALSE, TRUE, TRUE, TRUE>>, <<TRUE, FALSE, TRUE, FALSE>>}}
    \cup {Run("main", FALSE, 1, "nosuch", FALSE, TRUE, TRUE, FALSE, TRUE)}
    \cup {Run("main", l[1], l[2], l[3], nb, b, TRUE, TRUE, FALSE) :
            l \in {<<FALSE, 1, "">>, <<FALSE, 1, "base">>, <<TRUE, NumOrig, "">>},
            nb \in BOOLEAN, b \in BOOLEAN}

\* main -> parseArgs -> runReparent, to the first change of the working position.
\* limit: the number of operations the model lets begin.
StartInvokeUpTo(limit) ==
    /\ pc = "idle"
    /\ \E r \in Runs :
         LET parsed == parseArgs(r.args)
             plan == runReparentPlan(parsed.opts, r.backupOk, r.answer)
         IN /\ cmd' = "start"
            /\ suppliedBoth' = (r.args.numberGiven /\ r.args.from # "")
            /\ given' = Given(r)
            /\ IF parsed.err
               THEN /\ Exit("usage", 1)
                    /\ backedUp' = FALSE
                    /\ UNCHANGED <<loc, starts>>
               ELSE /\ backedUp' = plan.backup
                    /\ IF plan.go
                       THEN /\ starts < limit
                            /\ starts' = starts + 1
                            /\ pc' = "checkout"
                            /\ loc' = [NoLoc EXCEPT !.parentCommit = plan.parentCommit,
                                                    !.origBranch = plan.currentBranch,
                                                    !.noBranch = parsed.opts.noBranch,
                                                    !.commits = plan.commits]
                            /\ Running
                       ELSE /\ Exit(plan.how, plan.code)
                            /\ UNCHANGED <<loc, starts>>
    /\ UNCHANGED <<repo, files, attempted, resume, op, tip, suspended, faults>>
    /\ UNCHANGED tools

StartInvoke == StartInvokeUpTo(MaxStarts)

\* runReparent: common.CheckoutCommit(parentCommit)
CheckoutParent ==
    /\ pc = "checkout"
    /\ \/ /\ head' = CheckoutCommit(loc.parentCommit)
          /\ pc' = "save_state"
          /\ loc' = [loc EXCEPT !.toSave = loc.commits,
                                !.saveBranch = loc.origBranch,
                                !.saveNoBranch = loc.noBranch,
                                !.ret = "apply"]
          /\ op' = [phase |-> "started", branch |-> loc.origBranch,
                    preStart |-> branches[loc.origBranch], noBranch |-> loc.noBranch,
                    faults |-> faults]
          /\ tip' = loc.parentCommit
          /\ Running /\ NoFault
       \/ /\ Exit("checkoutFailed", 1) /\ Fault
          /\ UNCHANGED <<head, loc, op, tip>>
    /\ UNCHANGED <<branches, cherryPickHead, tree, files, cmd, call, suspended, starts>>

\* The checkout of the new parent, as a step of start.
StartCheckout == CheckoutParent /\ UNCHANGED tools

\* A save that goes on without writing the record.
SaveStateSkipped ==
    /\ pc = "save_state"
    /\ pc' = "save_head"
    /\ op' = IF loc.ret = "apply" THEN [op EXCEPT !.phase = "saved"] ELSE op
    /\ Running /\ NoFault
    /\ UNCHANGED <<repo, files, cmd, loc, call, tip, suspended, starts>>
    /\ UNCHANGED tools

\* saveReparentState: os.WriteFile(stateFile, content)
SaveState ==
    /\ pc = "save_state"
    /\ \/ /\ stateFile' = [exists |-> TRUE,
                           lines |-> FormatState(loc.toSave, loc.saveBranch, loc.saveNoBranch)]
          /\ pc' = "save_head"
          /\ op' = IF loc.ret = "apply" THEN [op EXCEPT !.phase = "saved"] ELSE op
          /\ suspended' = IF loc.ret = "apply" THEN NoResume
                          ELSE [valid |-> TRUE, at |-> loc.commits[loc.i],
                                list |-> SubSeq(loc.commits, loc.i + 1, Len(loc.commits))]
          /\ Running /\ NoFault
       \/ /\ Exit(IF loc.ret = "apply" THEN "saveFailed" ELSE "updateFailed", 1) /\ Fault
          /\ UNCHANGED <<stateFile, op, suspended>>
    /\ UNCHANGED <<repo, reparentHead, cmd, loc, call, tip, starts>>
    /\ UNCHANGED tools

\* A loop that stops the invocation when it is given no commit.
FirstStepNothingToDo(commits) == IF Len(commits) = 0 THEN "done" ELSE "pick"

\* applyCherryPicks: its loop over no commit returns at once, to finishReparent.
FirstStep(commits) == IF Len(commits) = 0 THEN "finish" ELSE "pick"

\* A marker that keeps naming the new parent.
MarkerAtParent == loc.parentCommit

\* createReparentHead: what it writes to REPARENT_HEAD, rev-parse HEAD.
MarkerCommit == GetCommitHash("HEAD")

\* saveReparentState -> createReparentHead: REPARENT_HEAD <- rev-parse HEAD
SaveHead ==
    /\ pc = "save_head"
    /\ \/ /\ reparentHead' = [exists |-> TRUE, commit |-> MarkerCommit]
          /\ NoFault
          /\ IF loc.ret = "apply"
             THEN /\ pc' = FirstStep(loc.commits)
                  /\ loc' = [loc EXCEPT !.i = 1]
                  /\ Running
             ELSE /\ Exit("conflict", 1)
                  /\ loc' = loc
       \/ /\ Exit(IF loc.ret = "apply" THEN "saveFailed" ELSE "updateFailed", 1) /\ Fault
          /\ UNCHANGED <<reparentHead, loc>>
    /\ UNCHANGED <<repo, stateFile, cmd, call, hist>>
    /\ UNCHANGED tools

\* A suspension that keeps the conflicting commit in the list.
RemainingWithConflicting(commits, i) == SubSeq(commits, i, Len(commits))

\* applyCherryPicks: the commits still to replay when commits[i] conflicts.
RemainingAfterConflict(commits, i) == SubSeq(commits, i + 1, Len(commits))

\* A new commit on HEAD: the checked-out branch advances, or the detached HEAD.
Commit(c) ==
    /\ head' = IF head.branch # "" THEN head ELSE CheckoutCommit(c)
    /\ branches' = IF head.branch # "" THEN MoveBranch(head.branch, c) ELSE branches
    /\ tip' = c

\* git can start a cherry-pick: none is open, and the new history fits the bound.
CanPick == ~IsCherryPickInProgress /\ Len(HeadCommit.picks) < MaxPicks

\* applyCherryPicks: one turn of the loop, common.CherryPickCommit(commits[i]).
Pick ==
    /\ pc = "pick"
    /\ LET commit == loc.commits[loc.i]
       IN /\ attempted' = Append(attempted, commit)
          /\ \/ \* the cherry-pick succeeds
                /\ CanPick
                /\ Commit(Replayed(HeadCommit, commit))
                /\ loc' = [loc EXCEPT !.i = loc.i + 1]
                /\ pc' = IF loc.i + 1 > Len(loc.commits) THEN "finish" ELSE "pick"
                /\ Running /\ NoFault
                /\ UNCHANGED <<cherryPickHead, tree>>
             \/ \* it fails: on a conflict, which leaves unmerged paths, or
                \* otherwise, leaving the work tree as it was and the
                \* cherry-pick session open (an empty commit) or not
                /\ \/ /\ CanPick
                      /\ cherryPickHead' = commit
                      /\ tree' = "conflict"
                      /\ NoFault
                   \/ /\ \E left \in {cherryPickHead, commit} : cherryPickHead' = left
                      /\ tree' = tree
                      /\ Fails(CanPick)
                /\ IF HasConflicts'
                   THEN \* updateReparentState(commits[i+1:])
                        LET loaded == loadReparentState
                        IN IF loaded.err
                           THEN /\ Exit("updateFailed", 1)
                                /\ loc' = loc
                           ELSE /\ pc' = "save_state"
                                /\ loc' = [loc EXCEPT
                                             !.toSave = RemainingAfterConflict(loc.commits, loc.i),
                                             !.saveBranch = loaded.state.originalBranch,
                                             !.saveNoBranch = loaded.state.noBranch,
                                             !.ret = "suspend"]
                                /\ Running
                   ELSE /\ Exit("cherryPickFailed", 1)
                        /\ loc' = loc
                /\ UNCHANGED <<head, branches, tip>>
    /\ UNCHANGED <<files, cmd, suppliedBoth, backedUp, given, resume, op, suspended, starts>>
    /\ UNCHANGED tools

\* finishReparent: newHead <- rev-parse HEAD
Finish ==
    /\ pc = "finish"
    /\ pc' = "cleanup_state"
    /\ loc' = [loc EXCEPT !.newHead = GetCommitHash("HEAD"), !.ret = "finish"]
    /\ Running /\ NoFault
    /\ UNCHANGED <<repo, files, cmd, call, hist>>
    /\ UNCHANGED tools

\* A finalization that never moves the branch, and one that always does.
NeverMoveBranch(noBranch) == FALSE

AlwaysMoveBranch(noBranch) == TRUE

\* finishReparent moves the branch unless --no-branch was given.
ShouldMoveBranch(noBranch) == ~noBranch

\* The operation ends: finalized or aborted when its plan had been saved.
Ended(how) == [op EXCEPT !.phase = IF op.phase = "saved" THEN how ELSE "none"]

\* What follows cleanupReparentState in its caller.
AfterCleanup ==
    IF loc.ret = "finish"
    THEN IF ShouldMoveBranch(loc.noBranch)
         THEN /\ pc' = "move"
              /\ Running
              /\ op' = op
         ELSE /\ Exit("completed", 0)
              /\ op' = Ended("finalized")
    ELSE /\ Exit("aborted", 0)
         /\ op' = Ended("aborted")

\* cleanupReparentState: os.Remove(stateFile) when it exists; a failure returns
\* before removeReparentHead and the caller only warns.
CleanupState ==
    /\ pc = "cleanup_state"
    /\ \/ /\ stateFile' = NoFile
          /\ suspended' = NoResume
          /\ pc' = "cleanup_head"
          /\ Running /\ NoFault
          /\ UNCHANGED <<loc, op>>
       \/ /\ stateFile.exists
          /\ Fault
          /\ loc' = [loc EXCEPT !.cleanupWarned = TRUE]
          /\ AfterCleanup
          /\ UNCHANGED <<stateFile, suspended>>
    /\ UNCHANGED <<repo, reparentHead, cmd, call, tip, starts>>
    /\ UNCHANGED tools

\* removeReparentHead: os.Remove(REPARENT_HEAD) when it exists.
CleanupHead ==
    /\ pc = "cleanup_head"
    /\ \/ /\ reparentHead' = NoMarker
          /\ NoFault
          /\ loc' = loc
       \/ /\ reparentHead.exists
          /\ Fault
          /\ loc' = [loc EXCEPT !.cleanupWarned = TRUE]
          /\ UNCHANGED reparentHead
    /\ AfterCleanup
    /\ UNCHANGED <<repo, stateFile, cmd, call, tip, suspended, starts>>
    /\ UNCHANGED tools

\* git branch -f refuses a name that is no branch and the checked-out branch.
CanMoveBranch(b) == b \in BranchNames /\ head.branch # b

\* finishReparent: common.MoveBranch(originalBranch, newHead)
FinishMove ==
    /\ pc = "move"
    /\ \/ /\ CanMoveBranch(loc.origBranch)
          /\ branches' = MoveBranch(loc.origBranch, loc.newHead)
          /\ pc' = "checkout_branch"
          /\ Running /\ NoFault
       \/ /\ Exit("moveFailed", 1) /\ Fails(CanMoveBranch(loc.origBranch))
          /\ UNCHANGED branches
    /\ UNCHANGED <<head, cherryPickHead, tree, files, cmd, loc, call, hist>>
    /\ UNCHANGED tools

\* git checkout <branch> refuses a name that is no branch and unmerged paths.
CanCheckoutBranch(b) == b \in BranchNames /\ tree # "conflict"

\* finishReparent: common.CheckoutBranch(originalBranch)
FinishCheckout ==
    /\ pc = "checkout_branch"
    /\ \/ /\ CanCheckoutBranch(loc.origBranch)
          /\ head' = CheckoutBranch(loc.origBranch)
          /\ Exit("completed", 0) /\ NoFault
          /\ op' = Ended("finalized")
       \/ /\ Exit("branchCheckoutFailed", 1) /\ Fails(CanCheckoutBranch(loc.origBranch))
          /\ UNCHANGED <<head, op>>
    /\ UNCHANGED <<branches, cherryPickHead, tree, files, cmd, loc, call,
                   tip, suspended, starts>>
    /\ UNCHANGED tools

\* main -> handleContinue: the checks, the load and the choice of the next step.
handleContinue ==
    /\ pc = "idle"
    /\ cmd' = "continue"
    /\ LET loaded == loadReparentState
       IN IF ~isReparentInProgress
          THEN /\ Exit("notInProgress", 1)
               /\ UNCHANGED <<loc, resume>>
          ELSE IF loaded.err
               THEN /\ Exit("loadFailed", 1)
                    /\ UNCHANGED <<loc, resume>>
               ELSE /\ pc' = IF IsCherryPickInProgress
                             THEN "continue_cherry_pick"
                             ELSE FirstStep(loaded.state.remainingCommits)
                    /\ loc' = [NoLoc EXCEPT !.origBranch = loaded.state.originalBranch,
                                            !.noBranch = loaded.state.noBranch,
                                            !.commits = loaded.state.remainingCommits,
                                            !.i = 1]
                    /\ resume' = suspended
                    /\ Running
    /\ UNCHANGED <<repo, files, suppliedBoth, backedUp, given, attempted, hist, faults>>

\* git reparent --continue, to the first change of the repository.
ContinueInvoke == handleContinue /\ UNCHANGED tools

\* git cherry-pick --continue commits the resolution; it refuses while paths
\* are unmerged and when there is nothing to commit.
CanContinueCherryPick ==
    /\ IsCherryPickInProgress
    /\ tree = "staged"
    /\ Len(HeadCommit.picks) < MaxPicks

ContinuedCherryPick ==
    /\ Commit(Replayed(HeadCommit, cherryPickHead))
    /\ cherryPickHead' = NoCommit
    /\ tree' = "clean"

\* A continue that leaves the open cherry-pick alone and goes on to the list.
ContinueCherryPickSkipped ==
    /\ pc = "continue_cherry_pick"
    /\ pc' = FirstStep(loc.commits)
    /\ Running /\ NoFault
    /\ UNCHANGED <<repo, tip, files, cmd, loc, call, op, suspended, starts>>
    /\ UNCHANGED tools

\* handleContinue: common.ContinueCherryPick()
ContinueCherryPick ==
    /\ pc = "continue_cherry_pick"
    /\ \/ /\ CanContinueCherryPick
          /\ ContinuedCherryPick
          /\ pc' = FirstStep(loc.commits)
          /\ Running /\ NoFault
       \/ /\ Exit("continueFailed", 1) /\ Fails(CanContinueCherryPick)
          /\ UNCHANGED <<repo, tip>>
    /\ UNCHANGED <<files, cmd, loc, call, op, suspended, starts>>
    /\ UNCHANGED tools

\* main -> handleAbort, to the first change of the repository.
AbortInvoke ==
    /\ pc = "idle"
    /\ cmd' = "abort"
    /\ LET loaded == loadReparentState
       IN IF ~isReparentInProgress
          THEN /\ Exit("notInProgress", 1)
               /\ loc' = loc
          ELSE IF loaded.err
               THEN /\ Exit("loadFailed", 1)
                    /\ loc' = loc
               ELSE /\ pc' = IF IsCherryPickInProgress
                             THEN "abort_cherry_pick"
                             ELSE "abort_checkout"
                    /\ loc' = [NoLoc EXCEPT !.origBranch = loaded.state.originalBranch,
                                            !.noBranch = loaded.state.noBranch,
                                            !.commits = loaded.state.remainingCommits]
                    /\ Running
    /\ UNCHANGED <<repo, files, call, hist, faults>>
    /\ UNCHANGED tools

\* An abort that gives up when the cherry-pick cannot be cancelled.
AbortCherryPickOrExit ==
    /\ pc = "abort_cherry_pick"
    /\ \/ /\ cherryPickHead' = NoCommit
          /\ tree' = "clean"
          /\ pc' = "abort_checkout"
          /\ Running /\ NoFault
       \/ /\ Exit("abortCherryPickFailed", 1)
          /\ Fault
          /\ UNCHANGED <<cherryPickHead, tree>>
    /\ UNCHANGED <<head, branches, files, cmd, loc, call, hist>>
    /\ UNCHANGED tools

\* handleAbort: common.AbortCherryPick(); a failure is a warning.
AbortCherryPick ==
    /\ pc = "abort_cherry_pick"
    /\ \/ /\ cherryPickHead' = NoCommit
          /\ tree' = "clean"
          /\ loc' = loc
          /\ NoFault
       \/ /\ loc' = [loc EXCEPT !.abortWarned = TRUE]
          /\ Fault
          /\ UNCHANGED <<cherryPickHead, tree>>
    /\ pc' = "abort_checkout"
    /\ Running
    /\ UNCHANGED <<head, branches, files, cmd, call, hist>>
    /\ UNCHANGED tools

\* An abort that returns to the new parent's branch.
AbortToParent(originalBranch) == "main"

\* The branch handleAbort checks out.
AbortTarget(originalBranch) == originalBranch

\* An abort that goes on to the cleanup when the checkout failed.
AbortCheckoutGoesOn ==
    /\ pc = "abort_checkout"
    /\ \/ /\ CanCheckoutBranch(AbortTarget(loc.origBranch))
          /\ head' = CheckoutBranch(AbortTarget(loc.origBranch))
          /\ NoFault
       \/ /\ Fails(CanCheckoutBranch(AbortTarget(loc.origBranch)))
          /\ UNCHANGED head
    /\ pc' = "cleanup_state"
    /\ loc' = [loc EXCEPT !.ret = "abort"]
    /\ Running
    /\ UNCHANGED <<branches, cherryPickHead, tree, files, cmd, call, hist>>
    /\ UNCHANGED tools

\* handleAbort: common.CheckoutBranch(state.originalBranch)
AbortCheckout ==
    /\ pc = "abort_checkout"
    /\ \/ /\ CanCheckoutBranch(AbortTarget(loc.origBranch))
          /\ head' = CheckoutBranch(AbortTarget(loc.origBranch))
          /\ pc' = "cleanup_state"
          /\ loc' = [loc EXCEPT !.ret = "abort"]
          /\ Running /\ NoFault
       \/ /\ Exit("abortCheckoutFailed", 1)
          /\ Fails(CanCheckoutBranch(AbortTarget(loc.origBranch)))
          /\ UNCHANGED <<head, loc>>
    /\ UNCHANGED <<branches, cherryPickHead, tree, files, cmd, call, hist>>
    /\ UNCHANGED tools

\* The next command starts afresh.
Fresh ==
    /\ pc' = "idle"
    /\ cmd' = "none"
    /\ loc' = NoLoc
    /\ outcome' = "none"
    /\ exitCode' = 0
    /\ suppliedBoth' = FALSE
    /\ backedUp' = FALSE
    /\ given' = NoGiven
    /\ attempted' = <<>>
    /\ resume' = NoResume

\* The process is killed between two steps.
Kill ==
    /\ pc \notin {"idle", "done"}
    /\ Fault
    /\ Fresh
    /\ UNCHANGED <<repo, files, hist>>
    /\ UNCHANGED tools

\* The process is killed inside saveReparentState's os.WriteFile, which
\* truncates the file and then writes: a beginning of the record is on disk.
KillInWrite ==
    /\ pc = "save_state"
    /\ Fault
    /\ LET record == FormatState(loc.toSave, loc.saveBranch, loc.saveNoBranch)
       IN \E k \in 0..(Len(record) - 1) :
            stateFile' = [exists |-> TRUE, lines |-> SubSeq(record, 1, k)]
    /\ suspended' = NoResume
    /\ Fresh
    /\ UNCHANGED <<repo, reparentHead, op, tip, starts>>
    /\ UNCHANGED tools

\* An operation that has ended is over.
Over == op.phase \in {"none", "finalized", "aborted"}

\* The process has exited.
Return ==
    /\ pc = "done"
    /\ Fresh
    /\ op' = IF Over THEN NoOp ELSE op
    /\ tip' = IF Over THEN NoCommit ELSE tip
    /\ UNCHANGED <<repo, files, suspended, starts, faults>>
    /\ UNCHANGED tools

\* ------------------------------------------------------------------ the operator
Operator == pc = "idle" /\ UNCHANGED <<files, proc, call, op, suspended, starts, faults>>

\* git add <resolved-files>
OperatorResolve ==
    /\ Operator
    /\ tree = "conflict"
    /\ tree' = "staged"
    /\ UNCHANGED <<head, branches, cherryPickHead, tip>>
    /\ UNCHANGED tools

\* git cherry-pick --continue
OperatorContinueCherryPick ==
    /\ Operator
    /\ CanContinueCherryPick
    /\ ContinuedCherryPick
    /\ UNCHANGED tools

\* git cherry-pick --abort
OperatorAbortCherryPick ==
    /\ Operator
    /\ IsCherryPickInProgress
    /\ cherryPickHead' = NoCommit
    /\ tree' = "clean"
    /\ UNCHANGED <<head, branches, tip>>
    /\ UNCHANGED tools

\* git checkout <branch>, while an operation is on disk
OperatorCheckout ==
    /\ Operator
    /\ stateFile.exists
    /\ ~HasUncommittedChanges /\ ~IsCherryPickInProgress
    /\ \E b \in {"feat", "base"} : head.branch # b /\ head' = CheckoutBranch(b)
    /\ UNCHANGED <<branches, cherryPickHead, tree, tip>>
    /\ UNCHANGED tools

Next ==
    \/ StartInvoke
    \/ StartCheckout
    \/ SaveState
    \/ SaveHead
    \/ Pick
    \/ Finish
    \/ CleanupState
    \/ CleanupHead
    \/ FinishMove
    \/ FinishCheckout
    \/ ContinueInvoke
    \/ ContinueCherryPick
    \/ AbortInvoke
    \/ AbortCherryPick
    \/ AbortCheckout
    \/ Kill
    \/ KillInWrite
    \/ Return
    \/ OperatorResolve
    \/ OperatorContinueCherryPick
    \/ OperatorAbortCherryPick

Spec == Init /\ [][Next]_vars

\* The program when no step fails and no process is killed, with an operator
\* who also checks out a branch in the middle of an operation and starts once
\* more.
InitSteady == Pristine /\ faults = MaxFaults

StartInvokeAgain == StartInvokeUpTo(MaxStarts + 1)

NextSteady ==
    \/ StartInvokeAgain
    \/ StartCheckout
    \/ SaveState
    \/ SaveHead
    \/ Pick
    \/ Finish
    \/ CleanupState
    \/ CleanupHead
    \/ FinishMove
    \/ FinishCheckout
    \/ ContinueInvoke
    \/ ContinueCherryPick
    \/ AbortInvoke
    \/ AbortCherryPick
    \/ AbortCheckout
    \/ Return
    \/ OperatorResolve
    \/ OperatorContinueCherryPick
    \/ OperatorAbortCherryPick
    \/ OperatorCheckout

SpecSteady == InitSteady /\ [][NextSteady]_vars

\* ------------------------------------------------------------------ properties
AtRest == pc \in {"idle", "done"}

InProgress == op.phase \in {"started", "saved"}

Persisted == loadReparentState.state.remainingCommits

\* Since the operation's start no step has failed by a fault and no process
\* has been killed.
Clean == faults = op.faults

\* s is the beginning of t.
IsPrefix(s, t) == Len(s) <= Len(t) /\ s = SubSeq(t, 1, Len(s))

\* C1: between start's checkout of the new parent and the end of the operation
\* (finalized or aborted), whenever no process is running the state file and
\* the marker are both present.
C1_AlwaysResumable ==
    AtRest /\ InProgress => stateFile.exists /\ reparentHead.exists

C3_NoReplayedCommitPersisted ==
    AtRest /\ op.phase = "saved" /\ stateFile.exists
        => \A c \in Range(Persisted) : Change(c) \notin Range(tip.picks)

\* C4: after every invocation the marker exists exactly when the state file does.
C4_MarkerIffState ==
    pc = "done" => (reparentHead.exists <=> stateFile.exists)

\* C5: a continue or an abort invoked while there is no state file exits with
\* code 1 and changes neither the repository nor the two files.
C5_NothingToResume ==
    [][(pc = "idle" /\ cmd' \in {"continue", "abort"} /\ ~stateFile.exists)
          => (pc' = "done" /\ exitCode' = 1 /\ UNCHANGED <<repo, files>>)]_vars

\* C5: an abort was refused although the marker is there: the state file is not.
C5_Witness ==
    /\ pc = "done" /\ cmd = "abort" /\ exitCode = 1
    /\ reparentHead.exists /\ ~stateFile.exists

\* C6: a finalization without --no-branch in which no step fails leaves the
\* original branch at the last replayed commit, HEAD on that branch, and
\* neither state file nor marker.
C6_FinalizeMovesBranch ==
    pc = "done" /\ outcome = "completed" /\ op.phase = "finalized" /\ ~op.noBranch /\ Clean
        => /\ branches[op.branch] = tip
           /\ head = CheckoutBranch(op.branch)
           /\ ~stateFile.exists /\ ~reparentHead.exists

\* C6: a reparent has been finalized and its branch has moved.
C6_Witness ==
    /\ pc = "done" /\ outcome = "completed" /\ op.phase = "finalized" /\ ~op.noBranch /\ Clean
    /\ tip.picks # <<>>
    /\ branches[op.branch] # op.preStart

\* C7: a finalization of an operation started with --no-branch in which no step
\* fails, by the start itself or by a continue, leaves the original branch where
\* it was before the start, HEAD detached at the last replayed commit, and
\* neither state file nor marker.
C7_NoBranchLeavesDetached ==
    pc = "done" /\ outcome = "completed" /\ op.phase = "finalized" /\ op.noBranch /\ Clean
        => /\ branches[op.branch] = op.preStart
           /\ head = CheckoutCommit(tip)
           /\ ~stateFile.exists /\ ~reparentHead.exists

\* C7: a continue has finalized an operation started with --no-branch.
C7_Witness ==
    /\ pc = "done" /\ outcome = "completed" /\ op.phase = "finalized" /\ op.noBranch /\ Clean
    /\ cmd = "continue"
    /\ tip.picks # <<>>

C9_FinalizeFailureResumable ==
    pc = "done" /\ outcome \in {"moveFailed", "branchCheckoutFailed"}
        => stateFile.exists /\ reparentHead.exists

\* C10: a start whose command line holds both --number and --from changes
\* neither the repository nor the two files.
C10_BothRejected ==
    [][(cmd = "start" /\ suppliedBoth) => UNCHANGED <<repo, files>>]_vars

\* C11: a start that finds no commit to move ends as a no-op with exit code 0.
C11_EmptyRangeBenign ==
    pc = "done" /\ cmd = "start" /\ outcome = "noCommits" => exitCode = 0

\* A start whose precondition is violated: the working tree has uncommitted
\* changes, or --parent or --from names no reference.
ViolatesPrecondition ==
    pc = "idle" /\ cmd' = "start" /\ (HasUncommittedChanges \/ given'.badParent \/ given'.badFrom)

\* C12 as stated: a start that violates a precondition fails and leaves the
\* state file, the marker, the working position and every branch pointer,
\* backup branches included, as they were.
C12_RejectedStartChangesNothing ==
    [][ViolatesPrecondition =>
         /\ pc' = "done" /\ exitCode' = 1
         /\ UNCHANGED <<repo, files>>
         /\ ~backedUp']_vars

\* C12: a start that violates a precondition fails with exit code 1 and
\* writes no state: the state file, the marker, the working position and the
\* existing branch pointers are as before the call.  Only the backup branch
\* of --backup, made before the --from reference is looked at, may be new.
C12_RejectedStartWritesNoState ==
    [][ViolatesPrecondition =>
         /\ pc' = "done" /\ exitCode' = 1
         /\ UNCHANGED <<repo, files>>
         /\ backedUp' => ~HasUncommittedChanges /\ ~given'.badParent]_vars

C12_Witness ==
    /\ pc = "done" /\ cmd = "start" /\ exitCode = 1
    /\ given.badFrom /\ outcome = "noCommitRange" /\ backedUp
    /\ ~stateFile.exists /\ ~reparentHead.exists

\* A start with --confirm whose prompt the operator answers with no.
DeclinedStart ==
    pc = "idle" /\ cmd' = "start" /\ given'.refused

\* C13 as stated: when the operator declines the prompt of --confirm, the
\* invocation exits 0 and the working position, every branch pointer, backup
\* branches included, the state file and the marker are as before.
C13_DeclineChangesNothing ==
    [][DeclinedStart /\ outcome' = "cancelled" =>
         /\ pc' = "done" /\ exitCode' = 0
         /\ UNCHANGED <<repo, files>>
         /\ ~backedUp']_vars

\* C13: the prompt of --confirm comes before any change the handler itself
\* makes: a start the operator declines never goes past the prompt, exits 0
\* when the prompt is reached, and leaves the working position, the existing
\* branch pointers, the state file and the marker as before.  Only the backup
\* branch of --backup, made before the prompt, may be new.
C13_DeclineWritesNothing ==
    [][DeclinedStart =>
         /\ pc' = "done"
         /\ outcome' = "cancelled" => exitCode' = 0
         /\ UNCHANGED <<repo, files>>]_vars

C13_Witness ==
    /\ pc = "done" /\ cmd = "start" /\ outcome = "cancelled" /\ exitCode = 0
    /\ given.refused /\ backedUp

\* C16: a start made from a detached working position, with a clean tree and
\* references that exist, is accepted: it is not refused for want of a
\* current branch.
C16_DetachedStartAccepted ==
    [][/\ pc = "idle" /\ cmd' = "start" /\ head.branch = ""
       /\ ~HasUncommittedChanges /\ ~given'.badParent /\ ~given'.badFrom
       /\ ~suppliedBoth'
       => ~(pc' = "done" /\ outcome' = "detachedHead" /\ exitCode' = 1)]_vars

\* A start whose plan is two commits, [C, D], has replayed C and stopped on a
\* conflict in D; nothing else has gone wrong.
LastOfTwoConflicts ==
    /\ pc = "done" /\ cmd = "start" /\ outcome = "conflict" /\ Clean
    /\ Len(loc.commits) = 2 /\ loc.i = 2

\* C17 as stated: with plan [C, D], when D conflicts the persisted remaining
\* list is [D] and the marker holds C as replayed on the new parent.
C17_LastConflictPersistsIt ==
    LastOfTwoConflicts
        => /\ Persisted = <<loc.commits[2]>>
           /\ reparentHead.commit = Replayed(loc.parentCommit, loc.commits[1])

\* C17: with plan [C, D], when D, the last commit, conflicts the persisted
\* remaining list is empty, and the marker holds C as replayed on the new
\* parent.
C17_LastConflictPersistsNone ==
    LastOfTwoConflicts
        => /\ Persisted = <<>>
           /\ stateFile.exists /\ reparentHead.exists
           /\ reparentHead.commit = Replayed(loc.parentCommit, loc.commits[1])

C17_Witness ==
    /\ LastOfTwoConflicts
    /\ cherryPickHead = loc.commits[2]
    /\ HeadCommit = Replayed(loc.parentCommit, loc.commits[1])

\* The last n commits of c, oldest first, and the commit that replaying the
\* commits of a list on top of `onto`, in the list's order, builds.
LastCommits(c, n) == [j \in 1..n |-> Prefix(c, Len(c.picks) - n + j)]

ReplayedAll(onto, commits) ==
    [root |-> onto.root,
     picks |-> onto.picks \o [j \in 1..Len(commits) |-> Change(commits[j])]]

\* C18: a start whose commits all apply cleanly, in which no step fails, ends
\* completed with exit code 0, having replayed the last n >= 1 commits of the
\* branch once each, oldest first, on top of the new parent, and finalized.
C18_CleanStartReplaysAll ==
    /\ pc = "done" /\ cmd = "start" /\ Clean /\ attempted # <<>>
    /\ outcome \notin {"conflict", "cherryPickFailed"}
    => /\ outcome = "completed" /\ exitCode = 0
       /\ Len(loc.commits) >= 1
       /\ loc.commits = LastCommits(op.preStart, Len(loc.commits))
       /\ attempted = loc.commits
       /\ tip = ReplayedAll(loc.parentCommit, loc.commits)
       /\ HeadCommit = tip
       /\ op.phase = "finalized" /\ ~stateFile.exists /\ ~reparentHead.exists

C18_Witness ==
    /\ pc = "done" /\ cmd = "start" /\ Clean /\ outcome = "completed" /\ exitCode = 0
    /\ Len(loc.commits) = NumOrig /\ attempted = loc.commits
    /\ tip = ReplayedAll(loc.parentCommit, loc.commits)

\* C20: a start or a continue that stops on a conflict, in an operation in
\* which no step has failed, exits with code 1 and leaves the operation
\* suspended: the state file and the marker are there, HEAD is detached, the
\* original branch is where it was before the start, and a continue or an
\* abort finds a reparent in progress and a record that names that branch.
C20_ConflictSuspends ==
    pc = "done" /\ outcome = "conflict" /\ Clean
        => /\ cmd \in {"start", "continue"} /\ exitCode = 1
           /\ op.phase = "saved"
           /\ stateFile.exists /\ reparentHead.exists
           /\ head.branch = ""
           /\ branches[op.branch] = op.preStart
           /\ IsCherryPickInProgress /\ HasConflicts
           /\ isReparentInProgress /\ ~loadReparentState.err
           /\ loadReparentState.state.originalBranch = op.branch
           /\ loadReparentState.state.noBranch = op.noBranch

\* C20: a continue has stopped on a conflict in a commit of the persisted list.
C20_Witness ==
    /\ pc = "done" /\ outcome = "conflict" /\ Clean /\ cmd = "continue"
    /\ exitCode = 1 /\ resume.valid /\ attempted # <<>>
    /\ stateFile.exists /\ reparentHead.exists /\ head.branch = ""

\* The record on disk lacks one of the lines ORIGINAL_BRANCH=, NO_BRANCH=, COMMITS=.
Unparseable(file) ==
    /\ file.exists
    /\ \E key \in {"ORIGINAL_BRANCH", "NO_BRANCH", "COMMITS"} :
         \A j \in 1..Len(file.lines) : file.lines[j].k # key

\* C19: a continue that finds the marker and a record it cannot parse ends at
\* once with exit code 1: it replays no commit, moves no branch and deletes
\* neither the state file nor the marker.
C19_CorruptRecordRefused ==
    [][pc = "idle" /\ cmd' = "continue" /\ isReparentInProgress /\ Unparseable(stateFile)
         => pc' = "done" /\ exitCode' = 1 /\ UNCHANGED <<repo, files>>]_vars

\* The original branch name the record on disk holds.
RecordedBranch == loadReparentState.state.originalBranch

\* C14: as long as the state file stays on disk, from an operation's first save
\* to its end, the original branch name recorded in it does not change,
\* whatever is invoked: continues, conflict suspensions, further starts.
C14_RecordedBranchImmutable ==
    [][stateFile.exists /\ stateFile'.exists => RecordedBranch' = RecordedBranch]_vars

\* C15: a start invoked while the state file exists is refused with exit code
\* 1 and leaves the state file, the marker and the working position unchanged.
C15_StartRefusedWhileInProgress ==
    [][pc = "idle" /\ cmd' = "start" /\ stateFile.exists
         => pc' = "done" /\ exitCode' = 1 /\ UNCHANGED <<head, files>>]_vars

\* C24: in a start the first commit is replayed only when HEAD has been
\* switched to the new parent and the plan and the marker have been written,
\* with the whole plan in the record; a start that ends because the checkout
\* or the save failed has replayed no commit.
C24_PersistBeforeReplay ==
    /\ [][cmd = "start" /\ attempted = <<>> /\ attempted' # <<>>
            => /\ head = CheckoutCommit(loc.parentCommit)
               /\ stateFile.exists /\ reparentHead.exists
               /\ Persisted = loc.commits
               /\ attempted' = <<loc.commits[1]>>]_vars
    /\ [](pc = "done" /\ cmd = "start" /\ outcome \in {"checkoutFailed", "saveFailed"}
            => attempted = <<>>)

\* C24: a start has replayed its first commit on the new parent, the whole
\* plan being on disk.
C24_Witness ==
    /\ cmd = "start" /\ pc = "pick" /\ Clean
    /\ attempted = <<loc.commits[1]>>
    /\ tip = Replayed(loc.parentCommit, loc.commits[1])
    /\ stateFile.exists /\ reparentHead.exists /\ Persisted = loc.commits

\* C25: from the first save of an operation to its end the marker keeps the
\* commit it was given then, the new parent HEAD was detached at: no step
\* of an operation in which nothing has failed changes its content.
C25_MarkerImmutable ==
    [][/\ op.phase = "saved" /\ op'.phase = "saved" /\ Clean
       /\ reparentHead.exists /\ reparentHead'.exists
       => reparentHead'.commit = reparentHead.commit]_vars

\* C30: the cancelling of an open cherry-pick by abort never ends the abort,
\* whether it fails or not: the abort goes on to the checkout of the recorded
\* original branch with nothing else changed; and an abort that had only
\* warned about the cherry-pick and completes has checked out the recorded
\* branch, exits 0 and, unless the cleanup warned too, has removed the state
\* file and the marker.
C30_AbortCherryPickBestEffort ==
    /\ [][pc = "abort_cherry_pick" /\ pc' # "idle"
            => /\ pc' = "abort_checkout"
               /\ UNCHANGED <<head, branches, files, outcome, exitCode>>]_vars
    /\ [](pc = "done" /\ cmd = "abort" /\ loc.abortWarned
            => /\ outcome \in {"aborted", "abortCheckoutFailed"}
               /\ outcome = "aborted"
                    => /\ exitCode = 0
                       /\ head = CheckoutBranch(loc.origBranch)
                       /\ loc.cleanupWarned \/ (~stateFile.exists /\ ~reparentHead.exists))

\* C30: the cherry-pick could not be cancelled, and the abort has completed.
C30_Witness ==
    /\ pc = "done" /\ cmd = "abort" /\ loc.abortWarned /\ outcome = "aborted"
    /\ exitCode = 0 /\ IsCherryPickInProgress
    /\ head = CheckoutBranch(loc.origBranch)
    /\ ~stateFile.exists /\ ~reparentHead.exists

\* C27: a continue that finds a cherry-pick open replays nothing before it has
\* completed that cherry-pick; completing it commits the one resolution on
\* HEAD and closes the session, and the list is replayed from there; when it
\* fails, as it does while paths are unmerged, the continue ends with exit
\* code 1 having replayed nothing, with repository, state file and marker
\* unchanged.
C27_ContinueCompletesOpenPick ==
    /\ [][pc = "idle" /\ cmd' = "continue" /\ isReparentInProgress
          /\ ~loadReparentState.err /\ IsCherryPickInProgress
            => pc' = "continue_cherry_pick" /\ UNCHANGED <<repo, files, attempted>>]_vars
    /\ [][pc = "continue_cherry_pick" /\ pc' # "idle"
            => /\ attempted = <<>> /\ attempted' = <<>>
               /\ UNCHANGED files
               /\ \/ /\ ~HasConflicts
                     /\ pc' = FirstStep(loc.commits)
                     /\ tip' = Replayed(HeadCommit, cherryPickHead)
                     /\ cherryPickHead' = NoCommit /\ tree' = "clean"
                  \/ /\ pc' = "done" /\ outcome' = "continueFailed" /\ exitCode' = 1
                     /\ UNCHANGED repo]_vars

\* C27: a continue has completed the open cherry-pick and is about to replay
\* the first commit of the persisted list.
C27_Witness ==
    /\ cmd = "continue" /\ pc = "pick" /\ Clean /\ resume.valid
    /\ attempted = <<>> /\ loc.i = 1 /\ loc.commits = resume.list
    /\ ~IsCherryPickInProgress /\ HeadCommit = tip /\ Len(tip.picks) >= 1

\* A continue has found a suspension that left nothing to replay: the conflict
\* was in the last commit of the plan; no step of the operation has failed.
ResumedAtLast ==
    cmd = "continue" /\ Clean /\ resume.valid /\ resume.list = <<>>

\* C26: a continue that finds the conflict of the last commit resolved and an
\* empty list replays nothing and finalizes: it ends completed with exit code
\* 0 (or refuses while the conflict is unresolved); the state file and the
\* marker are gone; the replayed last commit is the tip, which the original
\* branch points at and HEAD is on, unless --no-branch left the branch where
\* it was and HEAD detached.
C26_EmptyListFinalizes ==
    pc = "done" /\ ResumedAtLast
        => /\ attempted = <<>>
           /\ outcome \in {"completed", "continueFailed"}
           /\ outcome = "completed"
                => /\ exitCode = 0
                   /\ ~stateFile.exists /\ ~reparentHead.exists
                   /\ HeadCommit = tip
                   /\ IF op.noBranch
                      THEN head.branch = "" /\ branches[op.branch] = op.preStart
                      ELSE head = CheckoutBranch(op.branch) /\ branches[op.branch] = tip

\* C26: the conflict in the last commit was resolved; the continue has
\* finalized and the branch points at that commit as replayed.
C26_Witness ==
    /\ pc = "done" /\ ResumedAtLast /\ outcome = "completed" /\ exitCode = 0
    /\ ~op.noBranch /\ branches[op.branch] = tip /\ Change(tip) = Change(resume.at)
    /\ Len(tip.picks) >= 2
    /\ ~stateFile.exists /\ ~reparentHead.exists

\* C28: a cherry-pick that fails without leaving unmerged paths ends the
\* invocation at once with exit code 1 and nothing rolled back: HEAD, the
\* branches, the state file and the marker are as they were before the
\* failing cherry-pick; and where nothing had failed in the operation before,
\* HEAD is detached at the last replayed commit, the original branch is
\* where it was before the start, and the state file and the marker are there
\* for an abort to find.
C28_ReplayFailureIsFatal ==
    [][pc = "pick" /\ pc' \notin {"pick", "finish", "idle"} /\ tree' # "conflict"
         => /\ pc' = "done" /\ outcome' = "cherryPickFailed" /\ exitCode' = 1
            /\ UNCHANGED <<head, branches, files, tip>>
            /\ Clean /\ op.phase = "saved"
                 => /\ head.branch = "" /\ HeadCommit = tip
                    /\ branches[op.branch] = op.preStart
                    /\ stateFile.exists /\ reparentHead.exists
                    /\ isReparentInProgress /\ ~loadReparentState.err
                    /\ RecordedBranch = op.branch]_vars

\* C28: the second cherry-pick of a start failed without a conflict, the
\* first failure of the operation.
C28_Witness ==
    /\ pc = "done" /\ cmd = "start" /\ outcome = "cherryPickFailed" /\ exitCode = 1
    /\ faults = op.faults + 1 /\ op.phase = "saved" /\ ~HasConflicts
    /\ Len(attempted) = 2 /\ tip = Replayed(loc.parentCommit, attempted[1])
    /\ head.branch = "" /\ HeadCommit = tip
    /\ stateFile.exists /\ reparentHead.exists

\* ------------------------------------------------------------ git-move-branch
\* The command line: -b, -t ("" when not given), --checkout, --backup, and
\* whether git-backup succeeds.
MoveBranchArgs ==
    [branch : {"", "feat", "base", "nosuch"},
     to : {"", "main", "base", "HEAD", "HEAD~1", "nosuch"},
     checkout : BOOLEAN,
     backup : BOOLEAN,
     backupOk : BOOLEAN]

MoveBranchRuns == {a \in MoveBranchArgs : a.backup \/ a.backupOk}

\* What the run leaves in its summary.
Summary(a, newReference, newCommit, isCurrentBranch) ==
    [branchToMove |-> a.branch, newReference |-> newReference,
     newCommit |-> newCommit, isCurrentBranch |-> isCurrentBranch,
     shouldCheckout |-> a.checkout]

\* main of git-move-branch.  The reference is resolved to newCommit; when the
\* branch is the current one HEAD is detached at newCommit; then
\* `git branch -f <branch> <newReference>` resolves the reference again, in
\* the repository as the checkout left it.
MoveBranchMain(a) ==
    /\ pc = "idle"
    /\ cmd' = "move-branch"
    /\ LET newReference == IF a.to = "" THEN "HEAD" ELSE a.to
           newCommit == GetCommitHash(newReference)
           isCurrentBranch == GetCurrentBranch = a.branch
           detached == IF isCurrentBranch THEN CheckoutCommit(newCommit) ELSE head
       IN IF a.branch = "" \/ ~GitRefExists(a.branch)
          THEN /\ Exit("noBranch", 1)
               /\ loc' = NoLoc
               /\ backedUp' = FALSE
               /\ UNCHANGED <<head, branches>>
          ELSE IF a.to # "" /\ ~GitRefExists(newReference)
          THEN /\ Exit("noReference", 1)
               /\ loc' = NoLoc
               /\ backedUp' = FALSE
               /\ UNCHANGED <<head, branches>>
          ELSE IF a.backup /\ ~a.backupOk
          THEN /\ Exit("backupFailed", 1)
               /\ loc' = NoLoc
               /\ backedUp' = FALSE
               /\ UNCHANGED <<head, branches>>
          ELSE IF ~RefExists(detached, branches, newReference)
          THEN /\ Exit("moveFailed", 1)
               /\ loc' = Summary(a, newReference, newCommit, isCurrentBranch)
               /\ backedUp' = a.backup
               /\ head' = detached
               /\ UNCHANGED branches
          ELSE /\ Exit("moved", 0)
               /\ loc' = Summary(a, newReference, newCommit, isCurrentBranch)
               /\ backedUp' = a.backup
               /\ branches' = MoveBranch(a.branch,
                                         RevParse(detached, branches, newReference))
               /\ head' = IF a.checkout \/ isCurrentBranch
                          THEN CheckoutBranch(a.branch) ELSE detached
    /\ UNCHANGED <<cherryPickHead, tree, files, suppliedBoth, given, attempted,
                   resume, hist, faults, tools>>

MoveBranchInvoke == \E a \in MoveBranchRuns : MoveBranchMain(a)

\* git checkout <branch>, between two commands
OperatorSwitch ==
    /\ Operator
    /\ \E b \in BranchNames : head.branch # b /\ head' = CheckoutBranch(b)
    /\ UNCHANGED <<branches, cherryPickHead, tree, tip>>
    /\ UNCHANGED tools

NextMoveBranch ==
    \/ MoveBranchInvoke
    \/ OperatorSwitch
    \/ Return

SpecMoveBranch == InitSteady /\ [][NextMoveBranch]_vars

Moved == pc = "done" /\ cmd = "move-branch" /\ outcome = "moved"

\* C22: after a move that succeeded the branch points at the commit the
\* target reference resolved to when the tool was invoked (the "To commit" of
\* its summary), and a branch that was checked out is checked out again.
C22_BranchAtResolvedCommit ==
    Moved => /\ branches[loc.branchToMove] = loc.newCommit
             /\ (loc.isCurrentBranch => head = CheckoutBranch(loc.branchToMove))

\* --------------------------------------------------------------- git-bookmark
BookmarkRefs == {"main", "feat", "HEAD~1", "refs/heads/base"}

\* The last two entries of a history.
LastTwo(s) == IF Len(s) <= 2 THEN s ELSE SubSeq(s, Len(s) - 1, Len(s))

\* git checkout <reference>: on the branch for a branch name, detached at
\* the commit otherwise.
Checkout(reference) ==
    IF reference \in BranchNames THEN CheckoutBranch(reference)
    ELSE CheckoutCommit(GetCommitHash(reference))

\* updatePreviousBookmark: PREVIOUS_BOOKMARK afterwards.  It is written with
\* the name it is given.
updatePreviousBookmark(currentBookmark) ==
    IF previousBookmark # currentBookmark THEN currentBookmark ELSE previousBookmark

\* A command of git-bookmark ends; it acts on the bookmarks only.
BookmarkExit(action, name, how, code) ==
    /\ cmd' = action
    /\ loc' = [name |-> name]
    /\ Exit(how, code)
    /\ UNCHANGED <<branches, cherryPickHead, tree, files, call, hist, faults,
                   backupBranches, created, reader, split, initial>>

\* git-bookmark create <name> [reference]
createBookmark ==
    /\ pc = "idle"
    /\ \E name \in BookmarkNames, given_ref \in BookmarkRefs \cup {""} :
         LET reference == IF given_ref = "" THEN GetCurrentBranch ELSE given_ref
         IN IF reference = "" \/ ~GitRefExists(reference)
            THEN /\ BookmarkExit("create", name, "error", 1)
                 /\ UNCHANGED <<head, bookmarks, previousBookmark, checkedOut>>
            ELSE /\ BookmarkExit("create", name, "ok", 0)
                 /\ bookmarks' = [bookmarks EXCEPT ![name] = reference]
                 /\ previousBookmark' = updatePreviousBookmark(name)
                 /\ UNCHANGED <<head, checkedOut>>

\* git-bookmark delete <name>
deleteBookmark ==
    /\ pc = "idle"
    /\ \E name \in BookmarkNames :
         IF bookmarks[name] = ""
         THEN /\ BookmarkExit("delete", name, "error", 1)
              /\ UNCHANGED <<head, bookmarks, previousBookmark, checkedOut>>
         ELSE /\ BookmarkExit("delete", name, "ok", 0)
              /\ bookmarks' = [bookmarks EXCEPT ![name] = ""]
              /\ UNCHANGED <<head, previousBookmark, checkedOut>>

\* checkoutBookmark(name), called for the action `action`.  After the
\* checkout the message slices reference[:8], which panics (exit 2) for a
\* reference shorter than eight characters.
checkoutBookmark(action, name) ==
    LET reference == bookmarks[name]
    IN IF reference = ""
       THEN /\ BookmarkExit(action, name, "error", 1)
            /\ UNCHANGED <<head, bookmarks, previousBookmark, checkedOut>>
       ELSE /\ previousBookmark' = updatePreviousBookmark(name)
            /\ UNCHANGED bookmarks
            /\ IF ~GitRefExists(reference)
               THEN /\ BookmarkExit(action, name, "error", 1)
                    /\ UNCHANGED <<head, checkedOut>>
               ELSE /\ head' = Checkout(reference)
                    /\ checkedOut' = LastTwo(Append(checkedOut, name))
                    /\ IF Len(reference) < 8
                       THEN BookmarkExit(action, name, "panic", 2)
                       ELSE BookmarkExit(action, name, "ok", 0)

\* git-bookmark checkout <name>
checkoutNamedBookmark ==
    /\ pc = "idle"
    /\ \E name \in BookmarkNames : checkoutBookmark("checkout", name)

\* git-bookmark -
checkoutPreviousBookmark ==
    /\ pc = "idle"
    /\ IF previousBookmark = ""
       THEN /\ BookmarkExit("checkout-previous", "", "error", 1)
            /\ UNCHANGED <<head, bookmarks, previousBookmark, checkedOut>>
       ELSE checkoutBookmark("checkout-previous", previousBookmark)

NextBookmark ==
    \/ createBookmark
    \/ deleteBookmark
    \/ checkoutNamedBookmark
    \/ checkoutPreviousBookmark
    \/ Return

SpecBookmark == InitSteady /\ [][NextBookmark]_vars

\* C21: after bookmark A and then bookmark B were checked out, `git-bookmark -`
\* checks out A, the bookmark checked out before the current one; used again
\* and again it alternates between the two.
C21_DashChecksOutPrevious ==
    [][(/\ pc = "idle" /\ cmd' = "checkout-previous"
        /\ Len(checkedOut) = 2 /\ checkedOut[1] # checkedOut[2]
        /\ bookmarks[checkedOut[1]] # "" /\ GitRefExists(bookmarks[checkedOut[1]]))
       => checkedOut' = <<checkedOut[2], checkedOut[1]>>]_vars

\* ----------------------------------------------------------------- git-backup
\* The branches a user can have made by hand that look like backups of today.
BackupBranches ==
    {BackupBranch(s, FALSE, 0) : s \in {"feat", "base"}}
    \cup {BackupBranch(s, TRUE, n) : s \in {"feat", "base"}, n \in 0..MaxBackups}

Max(S) == CHOOSE n \in S : \A m \in S : m <= n

\* getExistingBackups: the branches that match ^<base>(-\d+)?$.
getExistingBackups(source) == {b \in backupBranches : b.source = source}

\* A numbering by the count of the existing backups.
getNextBackupNumberByCount(existingBackups) == Cardinality(existingBackups) + 1

\* getNextBackupNumber: one more than the highest number, the unsuffixed
\* name counting as 0; 1 when there is no backup.
getNextBackupNumber(existingBackups) ==
    IF existingBackups = {} THEN 1
    ELSE Max({IF b.numbered THEN b.number ELSE 0 : b \in existingBackups}) + 1

hasExactMatch(existingBackups) == \E b \in existingBackups : ~b.numbered

\* main: the name of the new backup branch.
backupBranchName(targetBranch) ==
    LET existingBackups == getExistingBackups(targetBranch)
        backupNumber == getNextBackupNumber(existingBackups)
    IN IF backupNumber = 1 /\ ~hasExactMatch(existingBackups)
       THEN BackupBranch(targetBranch, FALSE, 0)
       ELSE BackupBranch(targetBranch, TRUE, backupNumber)

\* git-backup ends.
BackupExit(how, code) ==
    /\ cmd' = "backup"
    /\ Exit(how, code)
    /\ UNCHANGED <<repo, files, loc, call, hist, faults,
                   bookmarks, previousBookmark, checkedOut, reader, split, initial>>

\* git-backup [reference]: main without --purge and --list.  git branch
\* refuses a name that exists.
gitBackup ==
    /\ pc = "idle"
    /\ \E gitRef \in {"", "feat", "base", "nosuch"} :
         LET targetBranch == IF gitRef # "" THEN gitRef ELSE GetCurrentBranch
             backupBranchName_ == backupBranchName(targetBranch)
         IN IF (gitRef # "" /\ ~GitRefExists(gitRef)) \/ targetBranch = ""
            THEN /\ BackupExit("error", 1)
                 /\ UNCHANGED <<backupBranches, created>>
            ELSE /\ backupBranchName_.number <= MaxBackups
                 /\ IF backupBranchName_ \in backupBranches
                    THEN /\ BackupExit("createFailed", 1)
                         /\ UNCHANGED <<backupBranches, created>>
                    ELSE /\ BackupExit("backedUp", 0)
                         /\ backupBranches' = backupBranches \cup {backupBranchName_}
                         /\ created' = backupBranchName_

\* git branch <name> / git branch -D <name> by hand, between two commands
OperatorBranch ==
    /\ Operator
    /\ \E b \in BackupBranches :
         backupBranches' = IF b \in backupBranches THEN backupBranches \ {b}
                           ELSE backupBranches \cup {b}
    /\ UNCHANGED <<repo, tip, bookmarks, previousBookmark, checkedOut, created, reader,
                   split, initial>>

NextBackup ==
    \/ gitBackup
    \/ OperatorBranch
    \/ OperatorSwitch
    \/ Return

SpecBackup == InitSteady /\ [][NextBackup]_vars

\* The backups of the source of the new backup, and their numbers.
SameSource(b) == {e \in backupBranches : e.source = b.source}

Numbers(S) == {IF e.numbered THEN e.number ELSE 0 : e \in S}

BacksUp == pc = "idle" /\ cmd' = "backup" /\ outcome' = "backedUp"

WriteTruncate ==
    /\ pc = "save_state"
    /\ pc' = "save_write"
    /\ stateFile' = [exists |-> TRUE, lines |-> <<>>]
    /\ reader' = [reader EXCEPT !.old = stateFile]
    /\ Running /\ NoFault
    /\ UNCHANGED <<repo, reparentHead, cmd, loc, call, hist>>
    /\ UNCHANGED <<bookmarks, previousBookmark, checkedOut, backupBranches, created, split,
                   initial>>

\* os.WriteFile writes the record; saveReparentState goes on.
WriteRecord ==
    /\ pc = "save_write"
    /\ stateFile' = [exists |-> TRUE,
                     lines |-> FormatState(loc.toSave, loc.saveBranch, loc.saveNoBranch)]
    /\ pc' = "save_head"
    /\ op' = IF loc.ret = "apply" THEN [op EXCEPT !.phase = "saved"] ELSE op
    /\ suspended' = IF loc.ret = "apply" THEN NoResume
                    ELSE [valid |-> TRUE, at |-> loc.commits[loc.i],
                          list |-> SubSeq(loc.commits, loc.i + 1, Len(loc.commits))]
    /\ Running /\ NoFault
    /\ UNCHANGED <<repo, reparentHead, cmd, loc, call, tip, starts>>
    /\ UNCHANGED tools

\* loadReparentState on the file `file`.
LoadFrom(file) ==
    IF StateFileMissing(file)
    THEN [err |-> TRUE, state |-> EmptyState]
    ELSE [err |-> FALSE, state |-> ParseLines(file.lines, EmptyState, FALSE)]

\* Another process calls loadReparentState while this one is in
\* saveReparentState: before, in the middle of, or after its os.WriteFile.
ConcurrentLoad ==
    /\ pc \in {"save_state", "save_write", "save_head"}
    /\ reader' = [loaded |-> TRUE,
                  old |-> IF pc = "save_state" THEN stateFile ELSE reader.old,
                  new |-> [exists |-> TRUE,
                           lines |-> FormatState(loc.toSave, loc.saveBranch,
                                                 loc.saveNoBranch)],
                  saw |-> loadReparentState]
    /\ UNCHANGED <<repo, files, proc, call, hist, faults>>
    /\ UNCHANGED <<bookmarks, previousBookmark, checkedOut, backupBranches, created, split,
                   initial>>

NextConcurrent ==
    \/ StartInvoke
    \/ StartCheckout
    \/ WriteTruncate
    \/ WriteRecord
    \/ ConcurrentLoad
    \/ SaveHead
    \/ Pick
    \/ Finish
    \/ CleanupState
    \/ CleanupHead
    \/ FinishMove
    \/ FinishCheckout
    \/ ContinueInvoke
    \/ ContinueCherryPick
    \/ AbortInvoke
    \/ AbortCherryPick
    \/ AbortCheckout
    \/ Return
    \/ OperatorResolve
    \/ OperatorContinueCherryPick
    \/ OperatorAbortCherryPick

SpecConcurrent == InitSteady /\ [][NextConcurrent]_vars

\* C29: a load that runs beside a save overwriting an existing record returns
\* the complete old record or the complete new record, never a truncated or
\* partly written one.
C29_LoadSeesOldOrNew ==
    reader.loaded /\ reader.old.exists
        => reader.saw \in {LoadFrom(reader.old), LoadFrom(reader.new)}

\* C37: a checkout of a bookmark that exists and whose stored reference git
\* can check out ends with exit code 0, whatever the length of the reference.
C37_CheckoutEndsWithoutError ==
    [][(/\ pc = "idle" /\ cmd' = "checkout"
        /\ bookmarks[loc'.name] # "" /\ GitRefExists(bookmarks[loc'.name]))
       => exitCode' = 0]_vars

\* ------------------------------------------------------------------ git-split
\* The change of the commit that an amend leaves, and the change of the
\* commit made of what was split out of it.
SplitOff == 10

Amended(c) ==
    [root |-> c.root,
     picks |-> [c.picks EXCEPT ![Len(c.picks)] = c.picks[Len(c.picks)] + SplitOff]]

SplitOut(c) ==
    [root |-> c.root, picks |-> Append(c.picks, c.picks[Len(c.picks)] + SplitOff)]

\* The command line, whether git-backup succeeds, and the step that fails.
SplitArgs ==
    [backup : BOOLEAN, force : BOOLEAN, commit : BOOLEAN, noAdd : BOOLEAN,
     failAt : {"none", "backup", "diff", "amend", "apply", "stage", "commit"}]

\* The steps main takes after it has created the diff file, in order.
RunsStep(a, step) ==
    \/ step \in {"amend", "apply"}
    \/ step = "stage" /\ ~(a.noAdd \/ a.force)
    \/ step = "commit" /\ a.commit

StepsAfterDiff == <<"amend", "apply", "stage", "commit">>

\* The step is carried out: it runs, and no step before it has failed.
Done(a, step) ==
    /\ RunsStep(a, step)
    /\ \A j \in 1..Len(StepsAfterDiff) :
         a.failAt = StepsAfterDiff[j]
             => \E k \in 1..(j - 1) : StepsAfterDiff[k] = step

\* The deferred os.Remove(diffFile) runs when main returns; os.Exit does not
\* run deferred functions.  TRUE: the file is left.
DiffFileLeft(a) == a.failAt \in {"amend", "apply", "stage", "commit"} /\ RunsStep(a, a.failAt)

\* git-split ends.
SplitExit(a, how, code) ==
    /\ cmd' = "split"
    /\ loc' = a
    /\ Exit(how, code)
    /\ UNCHANGED <<cherryPickHead, tree, files, suppliedBoth, given, attempted, resume,
                   op, suspended, starts, faults,
                   bookmarks, previousBookmark, checkedOut, reader, initial>>

\* main of git-split on a commit that was not split before.
gitSplit ==
    /\ pc = "idle"
    /\ HeadCommit.picks # <<>> /\ Change(HeadCommit) < SplitOff
    /\ \E a \in SplitArgs :
         /\ a.failAt = "backup" => a.backup
         /\ a.failAt \in {"stage", "commit"} => RunsStep(a, a.failAt)
         /\ IF (a.noAdd /\ a.commit) \/ (a.force /\ a.commit)
            THEN /\ SplitExit(a, "incompatible", 1)
                 /\ backedUp' = FALSE
                 /\ UNCHANGED <<head, branches, tip, backupBranches, created, split>>
            ELSE IF ~a.force /\ split.unstaged
            THEN /\ SplitExit(a, "unstaged", 1)
                 /\ backedUp' = FALSE
                 /\ UNCHANGED <<head, branches, tip, backupBranches, created, split>>
            ELSE IF ~split.staged
            THEN /\ SplitExit(a, "nothingToSplit", 0)
                 /\ backedUp' = FALSE
                 /\ UNCHANGED <<head, branches, tip, backupBranches, created, split>>
            ELSE IF a.failAt = "backup"
            THEN /\ SplitExit(a, "backupFailed", 1)
                 /\ backedUp' = FALSE
                 /\ UNCHANGED <<head, branches, tip, backupBranches, created, split>>
            ELSE /\ backedUp' = a.backup
                 /\ IF a.backup
                    THEN /\ GetCurrentBranch # ""
                         /\ backupBranchName(GetCurrentBranch).number <= MaxBackups
                         /\ created' = backupBranchName(GetCurrentBranch)
                         /\ backupBranches' = backupBranches \cup {created'}
                    ELSE UNCHANGED <<backupBranches, created>>
                 /\ IF a.failAt = "diff"
                    THEN /\ SplitExit(a, "diffFailed", 1)
                         /\ \E left \in {split.diffFile, TRUE} :
                              split' = [split EXCEPT !.diffFile = left]
                         /\ UNCHANGED <<head, branches, tip>>
                    ELSE /\ IF a.failAt = "none"
                            THEN SplitExit(a, "split", 0)
                            ELSE SplitExit(a, a.failAt, 1)
                         /\ split' =
                              [diffFile |-> DiffFileLeft(a),
                               staged |-> IF Done(a, "commit") THEN FALSE
                                          ELSE IF Done(a, "stage") THEN TRUE
                                          ELSE IF Done(a, "amend") THEN FALSE
                                          ELSE split.staged,
                               unstaged |-> IF Done(a, "stage") THEN FALSE
                                            ELSE IF Done(a, "apply") THEN TRUE
                                            ELSE split.unstaged]
                         /\ IF Done(a, "commit")
                            THEN Commit(SplitOut(Amended(HeadCommit)))
                            ELSE IF Done(a, "amend")
                            THEN Commit(Amended(HeadCommit))
                            ELSE UNCHANGED <<head, branches, tip>>

\* git add / an edit / rm of the diff file by hand, between two commands
OperatorEdit ==
    /\ Operator
    /\ \E field \in {"staged", "unstaged", "diffFile"} :
         /\ field = "diffFile" => split.diffFile
         /\ split' = [split EXCEPT ![field] = ~split[field]]
    /\ UNCHANGED <<repo, tip, bookmarks, previousBookmark, checkedOut, backupBranches,
                   created, reader, initial>>

NextSplit ==
    \/ gitSplit
    \/ OperatorEdit
    \/ OperatorSwitch
    \/ Return

SpecSplit == InitSteady /\ [][NextSplit]_vars

\* C36: once git-split has created its diff file, the file is gone when the
\* command has ended, on every way out: also when the amend, the reverse
\* apply, the staging or the commit failed.
C36_DiffFileRemoved ==
    pc = "done" /\ cmd = "split"
    /\ outcome \in {"split", "amend", "apply", "stage", "commit"}
        => ~split.diffFile

\* ------------------------------------------------------------ the state store
\* The longest plan saved, and the commits a plan is made of.
MaxLen == 2

PlanCommits ==
    {[root |-> "old", picks |-> <<1>>], [root |-> "old", picks |-> <<1, 2>>],
     [root |-> "main", picks |-> <<>>]}

Plans == UNION {[1..n -> PlanCommits] : n \in 0..MaxLen}

\* What the caller of the store passed last.
Passed(commits, originalBranch, noBranch) ==
    [NoLoc EXCEPT !.toSave = commits, !.saveBranch = originalBranch,
                  !.saveNoBranch = noBranch]

\* saveReparentState(commits, originalBranch, noBranch), createReparentHead
\* included, when both writes succeed.
saveReparentState(commits, originalBranch, noBranch) ==
    /\ stateFile' = [exists |-> TRUE, lines |-> FormatState(commits, originalBranch, noBranch)]
    /\ reparentHead' = [exists |-> TRUE, commit |-> MarkerCommit]

\* A caller saves a plan.
StoreSave ==
    /\ pc = "idle"
    /\ \E commits \in Plans, originalBranch \in BranchNames \cup {""}, noBranch \in BOOLEAN :
         /\ saveReparentState(commits, originalBranch, noBranch)
         /\ loc' = Passed(commits, originalBranch, noBranch)
    /\ cmd' = "save"
    /\ UNCHANGED <<repo, pc, outcome, exitCode, call, hist, faults>>
    /\ UNCHANGED tools

\* updateReparentState(remainingCommits) on a record that is there.
StoreUpdate ==
    /\ pc = "idle"
    /\ ~loadReparentState.err
    /\ \E remainingCommits \in Plans :
         LET state == loadReparentState.state
         IN /\ saveReparentState(remainingCommits, state.originalBranch, state.noBranch)
            /\ loc' = Passed(remainingCommits, state.originalBranch, state.noBranch)
    /\ cmd' = "update"
    /\ UNCHANGED <<repo, pc, outcome, exitCode, call, hist, faults>>
    /\ UNCHANGED tools

\* cleanupReparentState: both files are removed.
StoreCleanup ==
    /\ pc = "idle"
    /\ stateFile.exists
    /\ stateFile' = NoFile
    /\ reparentHead' = NoMarker
    /\ loc' = NoLoc
    /\ cmd' = "none"
    /\ UNCHANGED <<repo, pc, outcome, exitCode, call, hist, faults>>
    /\ UNCHANGED tools

NextStore ==
    \/ StoreSave
    \/ StoreUpdate
    \/ StoreCleanup

SpecStore == InitSteady /\ [][NextStore]_vars

\* C35: a load after a save returns, without error, the remaining list in the
\* same order, the branch name and the no-branch flag that were saved; and an
\* update of the remaining list returns the new list and leaves the branch
\* name and the flag as they were saved.
C35_StoreRoundTrip ==
    /\ [](cmd \in {"save", "update"}
            => /\ ~loadReparentState.err
               /\ loadReparentState.state.remainingCommits = loc.toSave
               /\ loadReparentState.state.originalBranch = loc.saveBranch
               /\ loadReparentState.state.noBranch = loc.saveNoBranch)
    /\ [][cmd' = "update"
            => /\ loadReparentState'.state.originalBranch
                    = loadReparentState.state.originalBranch
               /\ loadReparentState'.state.noBranch = loadReparentState.state.noBranch
               /\ loadReparentState'.state.originalBranch = loc.saveBranch
               /\ loadReparentState'.state.noBranch = loc.saveNoBranch]_vars

\* A plan of two commits with the flag set was saved and then updated to its
\* last commit: the load returns that commit, the branch and the flag.
C35_Witness ==
    /\ cmd = "update"
    /\ loadReparentState.state =
         [remainingCommits |-> <<[root |-> "old", picks |-> <<1, 2>>]>>,
          originalBranch |-> "feat", noBranch |-> TRUE]

\* C34: an abort whose checkout of the recorded original branch fails exits
\* with code 1 and leaves the state file and the marker as they were, so that
\* abort passes its checks again; and an abort removes the state file or the
\* marker only with the original branch checked out.
C34_AbortCheckoutFailureKeepsState ==
    /\ [][pc = "abort_checkout" /\ outcome' = "abortCheckoutFailed"
            => /\ pc' = "done" /\ exitCode' = 1
               /\ UNCHANGED <<stateFile, reparentHead, head, branches>>
               /\ isReparentInProgress' /\ ~loadReparentState'.err]_vars
    /\ [][(/\ cmd = "abort" /\ cmd' = "abort"
           /\ \/ stateFile.exists /\ ~stateFile'.exists
              \/ reparentHead.exists /\ ~reparentHead'.exists)
            => head = CheckoutBranch(loc.origBranch)]_vars

\* An abort has ended on the failed checkout of the original branch feat,
\* with the state file and the marker on disk.
C34_Witness ==
    /\ pc = "done" /\ cmd = "abort" /\ outcome = "abortCheckoutFailed" /\ exitCode = 1
    /\ loc.origBranch = "feat" /\ Persisted # <<>>
    /\ stateFile.exists /\ reparentHead.exists /\ head.branch = ""

\* A step of a reparent command, from its invocation to its exit.
CommandStep == pc \notin {"idle", "done"} \/ (pc = "idle" /\ pc' # "idle")

\* C31: a step of a reparent command changes a branch pointer only when it is
\* the move of finalize, the pointer is the one of the recorded original
\* branch and --no-branch is not recorded; replaying, suspending and abort
\* change no branch pointer, and abort neither runs a backup nor changes the
\* backup branches.
C31_OnlyFinalizeMovesBranch ==
    [][CommandStep =>
         /\ \A b \in BranchNames :
              branches'[b] # branches[b]
                  => pc = "move" /\ b = loc.origBranch /\ ~loc.noBranch
         /\ cmd' = "abort" => ~backedUp' /\ UNCHANGED <<branches, backupBranches>>]_vars

\* ------------------------------------------------------------------ the continues of one operation
\* The count of continues stops at one more than a plan has commits.
MaxContinues == NumOrig + 1

\* start's checkout of the new parent: the operation begins, with its plan
\* and no continue yet.
StartCounted ==
    /\ CheckoutParent
    /\ initial' = IF pc' = "save_state"
                  THEN [parentCommit |-> loc.parentCommit, commits |-> loc.commits,
                        continues |-> 0]
                  ELSE initial
    /\ UNCHANGED others

\* The operator has resolved: no native session is open (it was completed or
\* cancelled) or the open one has its conflict resolved and staged.
Resolved == ~IsCherryPickInProgress \/ CanContinueCherryPick

\* git reparent --continue, counted when the operator has resolved and the
\* invocation loads the record.
ContinueCounted ==
    /\ handleContinue
    /\ initial' = IF pc' # "done" /\ Resolved /\ initial.continues < MaxContinues
                  THEN [initial EXCEPT !.continues = initial.continues + 1]
                  ELSE initial
    /\ UNCHANGED others

NextResume ==
    \/ StartInvoke
    \/ StartCounted
    \/ SaveState
    \/ SaveHead
    \/ Pick
    \/ Finish
    \/ CleanupState
    \/ CleanupHead
    \/ FinishMove
    \/ FinishCheckout
    \/ ContinueCounted
    \/ ContinueCherryPick
    \/ AbortInvoke
    \/ AbortCherryPick
    \/ AbortCheckout
    \/ Return
    \/ OperatorResolve
    \/ OperatorContinueCherryPick
    \/ OperatorAbortCherryPick

SpecResume == InitSteady /\ [][NextResume]_vars

\* The step of applyCherryPicks that writes the record of a conflict suspension.
Suspends == pc = "save_state" /\ loc.ret = "suspend" /\ pc' = "done"

\* The replay of the plan stays within the length the model gives a commit, so
\* that no cherry-pick of the operation stops otherwise than on a conflict.
Fits == Len(initial.parentCommit.picks) + Len(initial.commits) <= MaxPicks

C33_FinalizedAppliedWholePlan ==
    pc = "done" /\ op.phase = "finalized" /\ outcome = "completed" /\ exitCode = 0
        => tip = ReplayedAll(initial.parentCommit, initial.commits)

====
